---- MODULE Spec2Model ----
(***************************************************************************)
(* A model of audio_to_face/modules/radnerfs/radnerf.py: the RADNeRF       *)
(* module (constructor, cal_cond_feat, forward, density).                  *)
(*                                                                         *)
(* Tensors are records [shape, data]: shape is the torch shape (<<N>> or   *)
(* <<N, W>>), data the entries (a sequence of N values, or of N rows of W  *)
(* values).  Floating-point values are fixed-point integers in units of    *)
(* 1/FScale, with |v| <= FMax finite, and three further codes for +inf,    *)
(* -inf and NaN.                                                           *)
(*                                                                         *)
(* A behaviour is the life of one object: Init draws the hparams and the   *)
(* method call the caller will make, Construct runs __init__ once, and the *)
(* method actions run the call on the constructed object.  The methods     *)
(* read the object and their arguments only, so a call's outcome does not  *)
(* depend on earlier calls.  A statement that raises leaves the locals     *)
(* after it Unassigned; frame.raised_at names the first such local.        *)
(* The sub-modules imported from cond_encoder, encoders.encoding, renderer *)
(* and utils are modelled by their shapes and as deterministic functions   *)
(* of their weights and input.                                             *)
(***************************************************************************)
EXTENDS Integers, Sequences, FiniteSets, TLC

(* ---------------------------- bounds ----------------------------------- *)
MaxN == 2
MaxB == 2
MaxCondOutDim == 2
MaxAmbientOutDim == 2
MaxGeoFeatDim == 1
MaxIndDim == 1

(* ------------------------ floating point ------------------------------- *)
FScale == 4
FMax == 64
PInf == FMax + 1
NInf == 0 - (FMax + 1)
NaN == FMax + 2

IsNaN(v) == v = NaN
IsFinite(v) == v >= 0 - FMax /\ v <= FMax

\* rounding of an exact result to the representable range (overflow -> inf)
FRound(n) == IF n > FMax THEN PInf ELSE IF n < 0 - FMax THEN NInf ELSE n

FAdd(a, b) ==
    IF IsNaN(a) \/ IsNaN(b) THEN NaN
    ELSE IF (a = PInf /\ b = NInf) \/ (a = NInf /\ b = PInf) THEN NaN
    ELSE IF a = PInf \/ b = PInf THEN PInf
    ELSE IF a = NInf \/ b = NInf THEN NInf
    ELSE FRound(a + b)

\* product of a value with a weight w (w is a plain integer, or NaN)
FMul(w, a) ==
    IF IsNaN(w) \/ IsNaN(a) THEN NaN
    ELSE IF ~IsFinite(a) THEN
        IF w = 0 THEN NaN
        ELSE IF (w > 0) = (a = PInf) THEN PInf ELSE NInf
    ELSE FRound(w * a)

\* torch.tanh, rounded to the grid: FScale * tanh(v / FScale)
TanhPos(v) == IF v >= 6 THEN 4 ELSE IF v >= 3 THEN 3 ELSE v
Tanh(v) ==
    IF IsNaN(v) THEN NaN
    ELSE IF v = PInf THEN FScale
    ELSE IF v = NInf THEN 0 - FScale
    ELSE IF v >= 0 THEN TanhPos(v) ELSE 0 - TanhPos(0 - v)

\* a colour activation that is tanh instead of sigmoid
Sigmoid_AsTanh(v) == Tanh(v)

\* torch.sigmoid, rounded to the grid: FScale / (1 + exp(-v / FScale))
SigmoidPos(v) == IF v >= 8 THEN 4 ELSE IF v >= 3 THEN 3 ELSE 2
Sigmoid(v) ==
    IF IsNaN(v) THEN NaN
    ELSE IF v = PInf THEN FScale
    ELSE IF v = NInf THEN 0
    ELSE IF v >= 0 THEN SigmoidPos(v) ELSE FScale - SigmoidPos(0 - v)

(* ----------------------------- tensors --------------------------------- *)
Tensor(shape, data) == [shape |-> shape, data |-> data]

\* a local that was never assigned because an earlier statement raised
Unassigned == [shape |-> <<-1>>, data |-> <<>>]
IsTensor(t) == t.shape[1] >= 0

\* None, as an argument value
None == [shape |-> <<-2>>, data |-> <<>>]

Rows(t) == t.shape[1]
Cols(t) == t.shape[2]

\* the repeat left out: t itself
Repeat_NoTile(t, n) == t

\* t.repeat(n, 1) for a 2-D tensor t: the rows of t, tiled n times
Repeat(t, n) ==
    IF ~IsTensor(t) THEN Unassigned
    ELSE Tensor(<<Rows(t) * n, Cols(t)>>,
                [i \in 1..(Rows(t) * n) |-> t.data[((i - 1) % Rows(t)) + 1]])

\* torch.cat([a, b], dim=1) on 2-D tensors; raises unless the rows agree
Cat(a, b) ==
    IF ~IsTensor(a) \/ ~IsTensor(b) THEN Unassigned
    ELSE IF Rows(a) # Rows(b) THEN Unassigned
    ELSE Tensor(<<Rows(a), Cols(a) + Cols(b)>>,
                [i \in 1..Rows(a) |-> a.data[i] \o b.data[i]])

\* torch.tanh(t), elementwise on a 2-D tensor
TanhT(t) ==
    IF ~IsTensor(t) THEN Unassigned
    ELSE Tensor(t.shape, [i \in 1..Rows(t) |-> [j \in 1..Cols(t) |-> Tanh(t.data[i][j])]])

\* torch.sigmoid(t), elementwise on a 2-D tensor
SigmoidT(t) ==
    IF ~IsTensor(t) THEN Unassigned
    ELSE Tensor(t.shape, [i \in 1..Rows(t) |-> [j \in 1..Cols(t) |-> Sigmoid(t.data[i][j])]])

\* h[..., 0:1]: the first column, kept as a column
Index0_KeepDim(h) ==
    IF ~IsTensor(h) \/ Cols(h) < 1 THEN Unassigned
    ELSE Tensor(<<Rows(h), 1>>, [i \in 1..Rows(h) |-> <<h.data[i][1]>>])

\* h[..., 0]: the first column, a 1-D tensor
Index0(h) ==
    IF ~IsTensor(h) \/ Cols(h) < 1 THEN Unassigned
    ELSE Tensor(<<Rows(h)>>, [i \in 1..Rows(h) |-> h.data[i][1]])

\* h[..., 0:]: every column, the first included
SliceFrom1_All(h) == h

\* h[..., 1:]: every column but the first
SliceFrom1(h) ==
    IF ~IsTensor(h) THEN Unassigned
    ELSE Tensor(<<Rows(h), IF Cols(h) >= 1 THEN Cols(h) - 1 ELSE 0>>,
                [i \in 1..Rows(h) |-> SubSeq(h.data[i], 2, Cols(h))])

(* ------------------- sub-modules built by __init__ --------------------- *)
\* an attribute __init__ has not (yet) set
NoModule == [kind |-> "absent"]
NoAttr == 0 - 1
HasModule(m) == m.kind # "absent"

\* utils.trunc_exp: exp in the forward pass, FScale * exp(v / FScale)
ExpTable == <<1, 1, 1, 1, 1, 2, 2, 3, 4, 5, 7, 8, 11, 14, 18, 23, 30, 38, 49, 63>>
trunc_exp(v) ==
    IF IsNaN(v) THEN NaN
    ELSE IF v = PInf THEN PInf
    ELSE IF v = NInf THEN 0
    ELSE IF v < 0 - 8 THEN 0
    ELSE IF v > 11 THEN PInf
    ELSE ExpTable[v + 9]

\* trunc_exp(t), elementwise on a 1-D or 2-D tensor
trunc_expT(t) ==
    IF ~IsTensor(t) THEN Unassigned
    ELSE IF Len(t.shape) = 1
    THEN Tensor(t.shape, [i \in 1..Rows(t) |-> trunc_exp(t.data[i])])
    ELSE Tensor(t.shape, [i \in 1..Rows(t) |-> [j \in 1..Cols(t) |-> trunc_exp(t.data[i][j])]])

\* encoders.encoding.get_encoder: the encoder and its output width
GridTable == <<1, 0, 0 - 1, 0, 2, 0, 0, 0>>
get_encoder(encoding, input_dim, num_levels, level_dim) ==
    IF encoding = "spherical_harmonics"
    THEN [kind |-> encoding, input_dim |-> 3, output_dim |-> 16, table |-> <<>>]
    ELSE [kind |-> encoding, input_dim |-> input_dim,
          output_dim |-> num_levels * level_dim, table |-> GridTable]

\* the key of a point in the grid: the sum of its finite coordinates
RECURSIVE RowKey(_)
RowKey(row) ==
    IF row = <<>> THEN 0
    ELSE (IF IsFinite(Head(row)) THEN Head(row) ELSE 0) + RowKey(Tail(row))

\* GridEncoder.forward: for each input row, one learned feature per level and
\* level dimension; an empty batch gives an output of 0 rows
GridEncoderForward(enc, x) ==
    IF ~IsTensor(x) \/ Cols(x) # enc.input_dim THEN Unassigned
    ELSE Tensor(<<Rows(x), enc.output_dim>>,
                [i \in 1..Rows(x) |->
                    [l \in 1..enc.output_dim |->
                        enc.table[((RowKey(x.data[i]) + l) % Len(enc.table)) + 1]]])

\* SHEncoder.forward: degree 4, 16 features; the constant and the three
\* linear harmonics carry the direction, the higher ones are left at 0
SHEncoderForward(enc, d) ==
    IF ~IsTensor(d) \/ Cols(d) # enc.input_dim THEN Unassigned
    ELSE Tensor(<<Rows(d), enc.output_dim>>,
                [i \in 1..Rows(d) |->
                    [k \in 1..enc.output_dim |->
                        IF k = 1 THEN 1
                        ELSE IF k = 2 THEN 0 - (d.data[i][2] \div 2)
                        ELSE IF k = 3 THEN d.data[i][3] \div 2
                        ELSE IF k = 4 THEN 0 - (d.data[i][1] \div 2)
                        ELSE 0]])

\* cond_encoder.MLP(dim_in, dim_out, dim_hidden, num_layers); w stands for
\* the learned weights, which the hidden width and depth only shape
MLP(dim_in, dim_out, w) ==
    [kind |-> "MLP", dim_in |-> dim_in, dim_out |-> dim_out, w |-> w]

\* the exact sum of the integers row[k] with k in idx
IntSum(row, idx) ==
    LET S[k \in 0..Len(row)] ==
            IF k = 0 THEN 0 ELSE S[k - 1] + (IF k \in idx THEN row[k] ELSE 0)
    IN  S[Len(row)]

\* the floating-point sum of the entries of row selected by idx
FSum(row, idx) ==
    IF \E k \in idx : IsNaN(row[k]) THEN NaN
    ELSE IF (\E k \in idx : row[k] = PInf) /\ (\E k \in idx : row[k] = NInf) THEN NaN
    ELSE IF \E k \in idx : row[k] = PInf THEN PInf
    ELSE IF \E k \in idx : row[k] = NInf THEN NInf
    ELSE FRound(IntSum(row, idx))

\* the sum of the entries k of row with (k - 1) % m = j - 1
SumSel(row, j, m) == FSum(row, {k \in 1..Len(row) : (k - 1) % m = j - 1})

\* MLP.forward: bias-free linear map; raises unless the input width is dim_in
MLPForward(net, x) ==
    IF ~IsTensor(x) \/ Cols(x) # net.dim_in THEN Unassigned
    ELSE Tensor(<<Rows(x), net.dim_out>>,
                [i \in 1..Rows(x) |->
                    [j \in 1..net.dim_out |->
                        FMul(net.w, SumSel(x.data[i], j, net.dim_out))]])

\* cond_encoder.AudioNet(dim_in, dim_aud, win_size)
AudioNet(dim_in, dim_aud, win_size) ==
    [kind |-> "AudioNet", dim_in |-> dim_in, dim_aud |-> dim_aud, win_size |-> win_size]

\* AudioNet.forward: [B, T, C] -> [B, dim_aud].  A condition window is kept
\* as one value per batch item (cond.data[b]); cond.shape is <<B, T, C>>.
AudioNetForward(net, cond) ==
    IF ~IsTensor(cond) \/ cond.shape[3] # net.dim_in THEN Unassigned
    ELSE Tensor(<<Rows(cond), net.dim_aud>>,
                [b \in 1..Rows(cond) |-> [j \in 1..net.dim_aud |-> FMul(j, cond.data[b])]])

\* cond_encoder.AudioAttNet(dim_aud, seq_len)
AudioAttNet(dim_aud, seq_len) ==
    [kind |-> "AudioAttNet", dim_aud |-> dim_aud, seq_len |-> seq_len]

\* AudioAttNet.forward: [seq_len, dim_aud] -> [1, dim_aud], a weighted sum
\* over the window; raises unless the window has seq_len items
AudioAttNetForward(net, x) ==
    IF ~IsTensor(x) \/ Rows(x) # net.seq_len \/ Cols(x) # net.dim_aud THEN Unassigned
    ELSE Tensor(<<1, net.dim_aud>>, <<[j \in 1..net.dim_aud |-> FSum([b \in 1..Rows(x) |-> x.data[b][j]], 1..Rows(x))]>>)

(* ---------------------------- RADNeRF ----------------------------------- *)
\* an object none of whose attributes is set
BlankObject ==
    [bound |-> NoAttr, individual_embedding_dim |-> NoAttr,
     cond_in_dim |-> NoAttr, cond_out_dim |-> NoAttr,
     cond_win_size |-> NoAttr, smo_win_size |-> NoAttr,
     cond_prenet |-> NoModule, with_att |-> FALSE, cond_att_net |-> NoModule,
     position_embedder |-> NoModule, position_embedding_dim |-> NoAttr,
     ambient_out_dim |-> NoAttr, ambient_net |-> NoModule,
     ambient_embedder |-> NoModule, ambient_embedding_dim |-> NoAttr,
     geo_feat_dim |-> NoAttr, sigma_net |-> NoModule,
     direction_embedder |-> NoModule, direction_embedding_dim |-> NoAttr,
     color_net |-> NoModule]

\* NeRFRenderer.__init__ (renderer.py): the attributes RADNeRF reads
NeRFRendererInit(hparams) ==
    [BlankObject EXCEPT !.bound = hparams.bound,
                        !.individual_embedding_dim = hparams.individual_embedding_dim]

CondTypes == {"esperanto", "deepspeech", "idexp_lm3d_normalized"}

\* an else branch that falls back to a default width instead of raising
CondInDim_Default(cond_type) ==
    IF cond_type = "esperanto" THEN 44
    ELSE IF cond_type = "deepspeech" THEN 29
    ELSE IF cond_type = "idexp_lm3d_normalized" THEN 68 * 3
    ELSE 44

\* the if/elif chain on hparams['cond_type']; NoAttr stands for the raise
CondInDim(cond_type) ==
    IF cond_type = "esperanto" THEN 44
    ELSE IF cond_type = "deepspeech" THEN 29
    ELSE IF cond_type = "idexp_lm3d_normalized" THEN 68 * 3
    ELSE NoAttr

\* RADNeRF.__init__: the outcome and the object as the constructor left it
RADNeRFInit(hparams) ==
    LET base == NeRFRendererInit(hparams)
        cond_in_dim == CondInDim(hparams.cond_type)
        pos == get_encoder(hparams.grid_type, 3, 16, 2)
        amb == get_encoder(hparams.grid_type, hparams.ambient_out_dim, 16, 2)
        dir == get_encoder("spherical_harmonics", 3, 0, 0)
    IN  IF cond_in_dim = NoAttr
        THEN [raised |-> "NotImplementedError", self |-> base]
        ELSE [raised |-> "none",
              self |-> [base EXCEPT
                !.cond_in_dim = cond_in_dim,
                !.cond_out_dim = hparams.cond_out_dim,
                !.cond_win_size = hparams.cond_win_size,
                !.smo_win_size = hparams.smo_win_size,
                !.cond_prenet = AudioNet(cond_in_dim, hparams.cond_out_dim,
                                         hparams.cond_win_size),
                !.with_att = hparams.with_att,
                !.cond_att_net = IF hparams.with_att
                                 THEN AudioAttNet(hparams.cond_out_dim, hparams.smo_win_size)
                                 ELSE NoModule,
                !.position_embedder = pos,
                !.position_embedding_dim = pos.output_dim,
                !.ambient_out_dim = hparams.ambient_out_dim,
                !.ambient_net = MLP(pos.output_dim + hparams.cond_out_dim,
                                    hparams.ambient_out_dim, hparams.weights.ambient),
                !.ambient_embedder = amb,
                !.ambient_embedding_dim = amb.output_dim,
                !.geo_feat_dim = hparams.geo_feat_dim,
                !.sigma_net = MLP(pos.output_dim + amb.output_dim,
                                  1 + hparams.geo_feat_dim, hparams.weights.sigma),
                !.direction_embedder = dir,
                !.direction_embedding_dim = dir.output_dim,
                !.color_net = MLP(dir.output_dim + hparams.geo_feat_dim
                                    + base.individual_embedding_dim,
                                  3, hparams.weights.color)]]

\* the first local, in statement order, whose statement raised ("" if none)
RECURSIVE FirstRaised(_)
FirstRaised(locals) ==
    IF locals = <<>> THEN ""
    ELSE IF ~IsTensor(Head(locals)[2]) THEN Head(locals)[1]
    ELSE FirstRaised(Tail(locals))

\* cal_cond_feat with the attention net applied whatever with_att says
cal_cond_feat_AlwaysAtt(obj, cond) ==
    LET prenet_out == AudioNetForward(obj.cond_prenet, cond)
        cond_feat == IF ~HasModule(obj.cond_att_net) THEN Unassigned
                     ELSE AudioAttNetForward(obj.cond_att_net, prenet_out)
    IN  [prenet_out |-> prenet_out,
         cond_feat |-> cond_feat,
         calls |-> <<"cond_prenet">>
                     \o (IF IsTensor(prenet_out) THEN <<"cond_att_net">> ELSE <<>>),
         raised_at |-> FirstRaised(<< <<"prenet_out", prenet_out>>,
                                      <<"cond_feat", cond_feat>> >>)]

\* RADNeRF.cal_cond_feat
cal_cond_feat(obj, cond) ==
    LET prenet_out == AudioNetForward(obj.cond_prenet, cond)
        use_att == obj.with_att /\ IsTensor(prenet_out)
        cond_feat == IF ~obj.with_att THEN prenet_out
                     ELSE IF ~HasModule(obj.cond_att_net) THEN Unassigned
                     ELSE AudioAttNetForward(obj.cond_att_net, prenet_out)
    IN  [prenet_out |-> prenet_out,
         cond_feat |-> cond_feat,
         calls |-> <<"cond_prenet">> \o (IF use_att THEN <<"cond_att_net">> ELSE <<>>),
         raised_at |-> FirstRaised(<< <<"prenet_out", prenet_out>>,
                                      <<"cond_feat", cond_feat>> >>)]

\* the color input with the individual code never appended
ColorInput_DropCode(direction_feat, geo_feat, individual_code, n) ==
    Cat(direction_feat, geo_feat)

\* forward's color input: the branch on individual_code
ColorInput(direction_feat, geo_feat, individual_code, n) ==
    IF individual_code # None
    THEN Cat(Cat(direction_feat, geo_feat), Repeat(individual_code, n))
    ELSE Cat(direction_feat, geo_feat)

\* RADNeRF.forward
forward(obj, position, direction, cond_feat_arg, individual_code) ==
    LET cond_feat == Repeat(cond_feat_arg, Rows(position))
        pos_feat == GridEncoderForward(obj.position_embedder, position)
        ambient_inp == Cat(pos_feat, cond_feat)
        ambient_logit == MLPForward(obj.ambient_net, ambient_inp)
        ambient_pos == TanhT(ambient_logit)
        ambient_feat == GridEncoderForward(obj.ambient_embedder, ambient_pos)
        h_inp == Cat(pos_feat, ambient_feat)
        h == MLPForward(obj.sigma_net, h_inp)
        sigma == trunc_expT(Index0(h))
        geo_feat == IF IsTensor(sigma) THEN SliceFrom1(h) ELSE Unassigned
        direction_feat == IF IsTensor(geo_feat)
                          THEN SHEncoderForward(obj.direction_embedder, direction)
                          ELSE Unassigned
        color_inp == ColorInput(direction_feat, geo_feat, individual_code, Rows(position))
        color_logit == MLPForward(obj.color_net, color_inp)
        color == SigmoidT(color_logit)
    IN  [cond_feat |-> cond_feat, pos_feat |-> pos_feat, ambient_inp |-> ambient_inp,
         ambient_logit |-> ambient_logit, ambient_pos |-> ambient_pos,
         ambient_feat |-> ambient_feat, h_inp |-> h_inp, h |-> h,
         sigma |-> sigma, geo_feat |-> geo_feat, direction_feat |-> direction_feat,
         color_inp |-> color_inp, color_logit |-> color_logit, color |-> color,
         raised_at |-> FirstRaised(<< <<"cond_feat", cond_feat>>, <<"pos_feat", pos_feat>>,
             <<"ambient_inp", ambient_inp>>, <<"ambient_logit", ambient_logit>>,
             <<"ambient_pos", ambient_pos>>, <<"ambient_feat", ambient_feat>>,
             <<"h_inp", h_inp>>, <<"h", h>>, <<"sigma", sigma>>, <<"geo_feat", geo_feat>>,
             <<"direction_feat", direction_feat>>, <<"color_inp", color_inp>>,
             <<"color_logit", color_logit>>, <<"color", color>> >>)]

\* density with the ambient coordinate left unnormalised (no tanh)
density_NoTanh(obj, position, cond_feat_arg) ==
    LET cond_feat == Repeat(cond_feat_arg, Rows(position))
        pos_feat == GridEncoderForward(obj.position_embedder, position)
        ambient_inp == Cat(pos_feat, cond_feat)
        ambient_logit == MLPForward(obj.ambient_net, ambient_inp)
        ambient_pos == ambient_logit
        ambient_feat == GridEncoderForward(obj.ambient_embedder, ambient_pos)
        h_inp == Cat(pos_feat, ambient_feat)
        h == MLPForward(obj.sigma_net, h_inp)
        sigma == trunc_expT(Index0(h))
        geo_feat == IF IsTensor(sigma) THEN SliceFrom1(h) ELSE Unassigned
    IN  [cond_feat |-> cond_feat, pos_feat |-> pos_feat, ambient_inp |-> ambient_inp,
         ambient_logit |-> ambient_logit, ambient_pos |-> ambient_pos,
         ambient_feat |-> ambient_feat, h_inp |-> h_inp, h |-> h,
         sigma |-> sigma, geo_feat |-> geo_feat,
         raised_at |-> FirstRaised(<< <<"cond_feat", cond_feat>>, <<"pos_feat", pos_feat>>,
             <<"ambient_inp", ambient_inp>>, <<"ambient_logit", ambient_logit>>,
             <<"ambient_pos", ambient_pos>>, <<"ambient_feat", ambient_feat>>,
             <<"h_inp", h_inp>>, <<"h", h>>, <<"sigma", sigma>>,
             <<"geo_feat", geo_feat>> >>)]

\* RADNeRF.density
density(obj, position, cond_feat_arg) ==
    LET cond_feat == Repeat(cond_feat_arg, Rows(position))
        pos_feat == GridEncoderForward(obj.position_embedder, position)
        ambient_inp == Cat(pos_feat, cond_feat)
        ambient_logit == MLPForward(obj.ambient_net, ambient_inp)
        ambient_pos == TanhT(ambient_logit)
        ambient_feat == GridEncoderForward(obj.ambient_embedder, ambient_pos)
        h_inp == Cat(pos_feat, ambient_feat)
        h == MLPForward(obj.sigma_net, h_inp)
        sigma == trunc_expT(Index0(h))
        geo_feat == IF IsTensor(sigma) THEN SliceFrom1(h) ELSE Unassigned
    IN  [cond_feat |-> cond_feat, pos_feat |-> pos_feat, ambient_inp |-> ambient_inp,
         ambient_logit |-> ambient_logit, ambient_pos |-> ambient_pos,
         ambient_feat |-> ambient_feat, h_inp |-> h_inp, h |-> h,
         sigma |-> sigma, geo_feat |-> geo_feat,
         raised_at |-> FirstRaised(<< <<"cond_feat", cond_feat>>, <<"pos_feat", pos_feat>>,
             <<"ambient_inp", ambient_inp>>, <<"ambient_logit", ambient_logit>>,
             <<"ambient_pos", ambient_pos>>, <<"ambient_feat", ambient_feat>>,
             <<"h_inp", h_inp>>, <<"h", h>>, <<"sigma", sigma>>,
             <<"geo_feat", geo_feat>> >>)]

(* --------------------------- the inputs -------------------------------- *)
\* learned weights of an MLP: a gain, NaN after a diverged training step
Gains == {1, NaN}

HParams ==
    [cond_type : CondTypes \cup {"hubert"},
     cond_out_dim : 1..MaxCondOutDim,
     cond_win_size : {16},
     smo_win_size : {MaxB},
     with_att : BOOLEAN,
     grid_type : {"tiledgrid"},
     ambient_out_dim : 1..MaxAmbientOutDim,
     geo_feat_dim : 0..MaxGeoFeatDim,
     bound : {1},
     individual_embedding_dim : 0..MaxIndDim,
     weights : {[ambient |-> g, sigma |-> g, color |-> g] : g \in Gains}]

\* position: [N, 3], N points; N = 0 is the empty batch
Positions == { Tensor(<<n, 3>>, [i \in 1..n |-> <<i - 3, 1, 0 - 1>>]) : n \in 0..MaxN }

\* direction: [N, 3], unit vectors
ViewDirection(n) == Tensor(<<n, 3>>, [i \in 1..n |-> <<FScale, 0, 0>>])
Directions(n) ==
    { ViewDirection(n), Tensor(<<n, 3>>, [i \in 1..n |-> <<0, 0, 0 - FScale>>]) }

\* cond_feat: [B, cond_out_dim]
CondFeats(hp) ==
    { Tensor(<<b, hp.cond_out_dim>>, [i \in 1..b |-> [j \in 1..hp.cond_out_dim |-> i + j - 6]]) :
        b \in 1..MaxB }

\* individual_code: None, or [1, individual_embedding_dim]
IndividualCodes(hp) ==
    { None,
      Tensor(<<1, hp.individual_embedding_dim>>,
             <<[j \in 1..hp.individual_embedding_dim |-> j]>>) }

\* cond: [B, T, C], one value per batch item
Conds ==
    { Tensor(<<b, 16, c>>, [i \in 1..b |-> i]) : b \in 1..MaxB, c \in {29, 44, 68 * 3} }

NoArgs ==
    [position |-> Unassigned, direction |-> Unassigned, cond_feat |-> Unassigned,
     individual_code |-> Unassigned, cond |-> Unassigned]

\* the method calls a caller can make on a model built from hp
Calls(hp) ==
    { [NoArgs EXCEPT !.cond = c] @@ [op |-> "cal_cond_feat"] : c \in Conds }
    \cup
    { [NoArgs EXCEPT !.position = p, !.cond_feat = c] @@ [op |-> "density"] :
        p \in Positions, c \in CondFeats(hp) }
    \cup
    { [NoArgs EXCEPT !.position = p, !.direction = ViewDirection(Rows(p)), !.cond_feat = c,
                     !.individual_code = ic] @@ [op |-> "forward"] :
        p \in Positions, c \in CondFeats(hp), ic \in IndividualCodes(hp) }

(* ------------------------- the state machine --------------------------- *)
VARIABLES
    hparams,    \* the argument of the constructor
    args,       \* the method call the caller makes: its name and arguments
    self,       \* the RADNeRF object: its attributes, as far as __init__ set them
    ctor,       \* how __init__ ended: "none" (not run), "ok", or the exception
    frame       \* the call when it ended: locals, sub-module calls, outcome

vars == <<hparams, args, self, ctor, frame>>

BlankFrame ==
    [op |-> "none", raised_at |-> "", calls |-> <<>>,
     prenet_out |-> Unassigned,
     cond_feat |-> Unassigned, pos_feat |-> Unassigned, ambient_inp |-> Unassigned,
     ambient_logit |-> Unassigned, ambient_pos |-> Unassigned,
     ambient_feat |-> Unassigned, h_inp |-> Unassigned, h |-> Unassigned,
     sigma |-> Unassigned, geo_feat |-> Unassigned, direction_feat |-> Unassigned,
     color_inp |-> Unassigned, color_logit |-> Unassigned, color |-> Unassigned]

Init ==
    /\ hparams \in HParams
    /\ args \in Calls(hparams)
    /\ self = BlankObject
    /\ ctor = "none"
    /\ frame = BlankFrame

\* RADNeRF(hparams)
Construct ==
    /\ ctor = "none"
    /\ LET r == RADNeRFInit(hparams)
       IN  /\ self' = r.self
           /\ ctor' = IF r.raised = "none" THEN "ok" ELSE r.raised
    /\ UNCHANGED <<hparams, args, frame>>

\* model.cal_cond_feat(cond)
CalCondFeat ==
    /\ ctor = "ok"
    /\ args.op = "cal_cond_feat"
    /\ frame' = [op |-> "cal_cond_feat"] @@ cal_cond_feat(self, args.cond) @@ BlankFrame
    /\ UNCHANGED <<hparams, args, self, ctor>>

\* model.forward(position, direction, cond_feat, individual_code)
Forward ==
    /\ ctor = "ok"
    /\ args.op = "forward"
    /\ frame' = [op |-> "forward"]
                    @@ forward(self, args.position, args.direction, args.cond_feat,
                               args.individual_code)
                    @@ BlankFrame
    /\ UNCHANGED <<hparams, args, self, ctor>>

\* model.density(position, cond_feat)
Density ==
    /\ ctor = "ok"
    /\ args.op = "density"
    /\ frame' = [op |-> "density"] @@ density(self, args.position, args.cond_feat) @@ BlankFrame
    /\ UNCHANGED <<hparams, args, self, ctor>>

Next == Construct \/ CalCondFeat \/ Forward \/ Density

Spec == Init /\ [][Next]_vars

(* ------------------------------ claims --------------------------------- *)
N == Rows(args.position)
Called(op) == ctor = "ok" /\ frame.op = op
Returned(op) == Called(op) /\ frame.raised_at = ""

InTanhRange(v) == v >= 0 - FScale /\ v <= FScale
InSigmoidRange(v) == v >= 0 /\ v <= FScale

\* C1: density is a sub-process of forward: on the same model, position and
\* cond_feat, whatever the direction and the individual code, density ends
\* where forward ends or earlier, its 'sigma' is the sigma of forward, and its
\* 'geo_feat' is the geo_feat forward puts into the input of the color net.
C1_DensityIsSubprocessOfForward ==
    Called("density") =>
        \A d \in Directions(N), ic \in IndividualCodes(hparams) :
            LET f == forward(self, args.position, d, args.cond_feat, ic)
                g == self.geo_feat_dim
                w == self.direction_embedding_dim
            IN  /\ frame.sigma = f.sigma
                /\ frame.geo_feat = f.geo_feat
                /\ frame.raised_at # "" => f.raised_at = frame.raised_at
                /\ IsTensor(f.color_inp) =>
                     \A i \in 1..N :
                        SubSeq(f.color_inp.data[i], w + 1, w + g) = frame.geo_feat.data[i]

C1_Witness ==
    /\ Returned("density")
    /\ N >= 2
    /\ self.geo_feat_dim >= 1
    /\ \A i \in 1..N : IsFinite(frame.sigma.data[i]) /\ frame.sigma.data[i] > 0
    /\ \E ic \in IndividualCodes(hparams), d \in Directions(N) :
          forward(self, args.position, d, args.cond_feat, ic).raised_at = ""

\* C2 as stated: every component of the returned ambient_pos lies in [-1, 1]
\* and every component of the returned color in [0, 1], whatever the
\* sub-networks produce.
C2_Original ==
    Returned("forward") =>
        /\ \A i \in 1..N : \A j \in 1..Cols(frame.ambient_pos) :
              InTanhRange(frame.ambient_pos.data[i][j])
        /\ \A i \in 1..N : \A j \in 1..Cols(frame.color) :
              InSigmoidRange(frame.color.data[i][j])

\* C2 amended: a component of the returned ambient_pos is NaN exactly when the
\* ambient net's output there is NaN and lies in [-1, 1] otherwise; a component
\* of the returned color is NaN exactly when the color net's output there is
\* NaN and lies in [0, 1] otherwise.
C2_RangesUnlessNaN ==
    Returned("forward") =>
        /\ \A i \in 1..N : \A j \in 1..Cols(frame.ambient_pos) :
              IF IsNaN(frame.ambient_logit.data[i][j])
              THEN IsNaN(frame.ambient_pos.data[i][j])
              ELSE InTanhRange(frame.ambient_pos.data[i][j])
        /\ \A i \in 1..N : \A j \in 1..Cols(frame.color) :
              IF IsNaN(frame.color_logit.data[i][j])
              THEN IsNaN(frame.color.data[i][j])
              ELSE InSigmoidRange(frame.color.data[i][j])

C2_Witness ==
    /\ Returned("forward")
    /\ N >= 2
    /\ \E i \in 1..N : \E j \in 1..Cols(frame.ambient_pos) :
          /\ ~InTanhRange(frame.ambient_logit.data[i][j])
          /\ IsFinite(frame.ambient_logit.data[i][j])
          /\ InTanhRange(frame.ambient_pos.data[i][j])
    /\ \E i \in 1..N : \E j \in 1..3 :
          /\ frame.color_logit.data[i][j] < 0
          /\ InSigmoidRange(frame.color.data[i][j])

\* C3: given position [N, 3], direction [N, 3], cond_feat [1, cond_out_dim]
\* and individual_code [1, individual_embedding_dim], N >= 1, forward returns
\* a sigma of shape [N], a color of shape [N, 3] and an ambient_pos of shape
\* [N, ambient_out_dim].
C3_ForwardOutputShapes ==
    ( /\ Called("forward")
      /\ N >= 1
      /\ args.position.shape = <<N, 3>>
      /\ args.direction.shape = <<N, 3>>
      /\ args.cond_feat.shape = <<1, self.cond_out_dim>>
      /\ args.individual_code.shape = <<1, self.individual_embedding_dim>> )
    => /\ frame.raised_at = ""
       /\ frame.sigma.shape = <<N>>
       /\ Len(frame.sigma.data) = N
       /\ frame.color.shape = <<N, 3>>
       /\ \A i \in 1..N : Len(frame.color.data[i]) = 3
       /\ frame.ambient_pos.shape = <<N, self.ambient_out_dim>>
       /\ \A i \in 1..N : Len(frame.ambient_pos.data[i]) = self.ambient_out_dim

C3_Witness ==
    /\ Returned("forward")
    /\ N >= 2
    /\ args.cond_feat.shape = <<1, self.cond_out_dim>>
    /\ args.individual_code.shape = <<1, self.individual_embedding_dim>>
    /\ self.ambient_out_dim >= 2
    /\ frame.sigma.shape = <<N>>

NoSubModules(obj) ==
    /\ ~HasModule(obj.cond_prenet) /\ ~HasModule(obj.cond_att_net)
    /\ ~HasModule(obj.position_embedder) /\ ~HasModule(obj.ambient_embedder)
    /\ ~HasModule(obj.direction_embedder)
    /\ ~HasModule(obj.ambient_net) /\ ~HasModule(obj.sigma_net) /\ ~HasModule(obj.color_net)

\* C4: a constructed model has cond_in_dim 44 for 'esperanto', 29 for
\* 'deepspeech', 204 for 'idexp_lm3d_normalized'; for any other cond_type the
\* constructor ends in NotImplementedError with cond_in_dim unset and none of
\* cond_prenet, cond_att_net, the encoders and the MLPs created.
C4_CondTypeSelection ==
    /\ ctor = "ok" =>
          /\ hparams.cond_type = "esperanto" => self.cond_in_dim = 44
          /\ hparams.cond_type = "deepspeech" => self.cond_in_dim = 29
          /\ hparams.cond_type = "idexp_lm3d_normalized" => self.cond_in_dim = 204
          /\ self.cond_in_dim \in {44, 29, 204}
          /\ self.cond_prenet.dim_in = self.cond_in_dim
    /\ (ctor # "none" /\ hparams.cond_type \notin CondTypes) =>
          /\ ctor = "NotImplementedError"
          /\ self.cond_in_dim = NoAttr
          /\ NoSubModules(self)
    /\ ctor = "NotImplementedError" => hparams.cond_type \notin CondTypes

C4_Witness ==
    /\ ctor = "NotImplementedError"
    /\ hparams.cond_type = "hubert"
    /\ NoSubModules(self)

\* C5 as stated: in forward and density, a cond_feat of one row of width
\* cond_out_dim is repeated to N rows and concatenated with pos_feat into an
\* ambient input of shape [N, position_embedding_dim + cond_out_dim], the input
\* width of ambient_net; a cond_feat of B > 1 rows is repeated to B*N rows,
\* which is not the N rows of pos_feat, and the concatenation raises.
C5_Original ==
    (Called("forward") \/ Called("density")) =>
        LET B == Rows(args.cond_feat)
        IN  /\ frame.cond_feat.shape = <<B * N, Cols(args.cond_feat)>>
            /\ \A i \in 1..(B * N) : frame.cond_feat.data[i] = args.cond_feat.data[((i - 1) % B) + 1]
            /\ (B = 1 /\ Cols(args.cond_feat) = self.cond_out_dim) =>
                  /\ frame.ambient_inp.shape
                        = <<N, self.position_embedding_dim + self.cond_out_dim>>
                  /\ Cols(frame.ambient_inp) = self.ambient_net.dim_in
                  /\ \A i \in 1..N :
                        frame.ambient_inp.data[i] = frame.pos_feat.data[i] \o args.cond_feat.data[1]
                  /\ IsTensor(frame.ambient_logit)
            /\ B > 1 =>
                  /\ Rows(frame.cond_feat) # Rows(frame.pos_feat)
                  /\ ~IsTensor(frame.ambient_inp)
                  /\ frame.raised_at = "ambient_inp"

\* C5 amended: in forward and density, a cond_feat of B rows is repeated to
\* B*N rows.  With B = 1 and width cond_out_dim it is concatenated with
\* pos_feat into an ambient input of shape [N, position_embedding_dim +
\* cond_out_dim], the input width of ambient_net, for every N, 0 included.
\* With B > 1 the concatenation raises exactly when N >= 1; on an empty batch
\* (N = 0) the repeated cond_feat has B*0 = 0 rows, as many as pos_feat, and
\* the concatenation succeeds with an ambient input of 0 rows.
C5_CondBroadcast ==
    (Called("forward") \/ Called("density")) =>
        LET B == Rows(args.cond_feat)
        IN  /\ frame.cond_feat.shape = <<B * N, Cols(args.cond_feat)>>
            /\ \A i \in 1..(B * N) : frame.cond_feat.data[i] = args.cond_feat.data[((i - 1) % B) + 1]
            /\ (B = 1 /\ Cols(args.cond_feat) = self.cond_out_dim) =>
                  /\ frame.ambient_inp.shape
                        = <<N, self.position_embedding_dim + self.cond_out_dim>>
                  /\ Cols(frame.ambient_inp) = self.ambient_net.dim_in
                  /\ \A i \in 1..N :
                        frame.ambient_inp.data[i] = frame.pos_feat.data[i] \o args.cond_feat.data[1]
                  /\ IsTensor(frame.ambient_logit)
            /\ (B > 1 /\ N >= 1) =>
                  /\ Rows(frame.cond_feat) # Rows(frame.pos_feat)
                  /\ ~IsTensor(frame.ambient_inp)
                  /\ frame.raised_at = "ambient_inp"
            /\ (B > 1 /\ N = 0) =>
                  /\ Rows(frame.cond_feat) = Rows(frame.pos_feat)
                  /\ frame.ambient_inp.shape
                        = <<0, self.position_embedding_dim + Cols(args.cond_feat)>>
                  /\ frame.raised_at # "ambient_inp"

C5_Witness ==
    /\ Called("density")
    /\ Rows(args.cond_feat) > 1
    /\ N >= 2
    /\ frame.raised_at = "ambient_inp"
    /\ Rows(frame.cond_feat) = Rows(args.cond_feat) * N

\* C5, the empty batch: B > 1 rows of cond_feat and the concatenation succeeds
C5_WitnessEmptyBatch ==
    /\ Called("forward")
    /\ Rows(args.cond_feat) > 1
    /\ N = 0
    /\ IsTensor(frame.ambient_inp)
    /\ Rows(frame.ambient_inp) = 0

\* C6: cal_cond_feat calls cond_prenet first; it calls cond_att_net, on the
\* prenet's output and after it, exactly when with_att is true; cond_att_net
\* exists on the model exactly when hparams['with_att'] is true, so it is never
\* called on a model built without it, and with with_att false the result is
\* the prenet's output.
C6_CondPipeline ==
    /\ ctor = "ok" => (HasModule(self.cond_att_net) <=> hparams.with_att)
    /\ ctor = "ok" => self.with_att = hparams.with_att
    /\ Called("cal_cond_feat") =>
          /\ frame.calls[1] = "cond_prenet"
          /\ frame.prenet_out = AudioNetForward(self.cond_prenet, args.cond)
          /\ \A k \in 1..Len(frame.calls) :
                frame.calls[k] = "cond_att_net" =>
                    /\ k = 2
                    /\ self.with_att
                    /\ HasModule(self.cond_att_net)
          /\ (self.with_att /\ IsTensor(frame.prenet_out)) =>
                /\ frame.calls = <<"cond_prenet", "cond_att_net">>
                /\ frame.cond_feat = AudioAttNetForward(self.cond_att_net, frame.prenet_out)
          /\ ~self.with_att =>
                /\ frame.calls = <<"cond_prenet">>
                /\ frame.cond_feat = frame.prenet_out

C6_Witness ==
    /\ Returned("cal_cond_feat")
    /\ self.with_att
    /\ frame.calls = <<"cond_prenet", "cond_att_net">>
    /\ frame.cond_feat # frame.prenet_out

\* C7 as stated: in both branches, with an individual code and with None, the
\* input forward hands to color_net has the width color_net was built with.
C7_Original ==
    (Called("forward") /\ IsTensor(frame.color_inp)) =>
        Cols(frame.color_inp) = self.color_net.dim_in

\* C7 amended: color_net is built with input width direction_embedding_dim +
\* geo_feat_dim + individual_embedding_dim.  With an individual_code of shape
\* [1, individual_embedding_dim] the color input has that width and color_net
\* accepts it.  With individual_code None the color input has width
\* direction_embedding_dim + geo_feat_dim: that is the width color_net expects
\* exactly when individual_embedding_dim = 0, and otherwise color_net raises.
C7_ColorInputWidth ==
    (Called("forward") /\ IsTensor(frame.geo_feat)) =>
        LET built == self.direction_embedding_dim + self.geo_feat_dim
                        + self.individual_embedding_dim
        IN  /\ self.color_net.dim_in = built
            /\ IsTensor(frame.color_inp)
            /\ Rows(frame.color_inp) = N
            /\ args.individual_code.shape = <<1, self.individual_embedding_dim>> =>
                  /\ Cols(frame.color_inp) = built
                  /\ frame.raised_at = ""
            /\ args.individual_code = None =>
                  /\ Cols(frame.color_inp)
                        = self.direction_embedding_dim + self.geo_feat_dim
                  /\ self.individual_embedding_dim = 0 => frame.raised_at = ""
                  /\ self.individual_embedding_dim > 0 =>
                        /\ Cols(frame.color_inp) # self.color_net.dim_in
                        /\ frame.raised_at = "color_logit"

C7_Witness ==
    /\ Called("forward")
    /\ args.individual_code = None
    /\ self.individual_embedding_dim > 0
    /\ IsTensor(frame.color_inp)
    /\ frame.raised_at = "color_logit"

\* C8: in forward and density the input of sigma_net is pos_feat followed by
\* ambient_feat, of width position_embedding_dim + ambient_embedding_dim, the
\* width sigma_net was built with; its output has width 1 + geo_feat_dim and
\* splits, without overlap or loss, into sigma (column 0, through trunc_exp)
\* and geo_feat (the geo_feat_dim columns after it), geo_feat_dim = 0 included.
C8_SigmaNetWidths ==
    ((Called("forward") \/ Called("density")) /\ IsTensor(frame.h_inp)) =>
        /\ Cols(frame.h_inp) = self.position_embedding_dim + self.ambient_embedding_dim
        /\ Cols(frame.h_inp) = self.sigma_net.dim_in
        /\ \A i \in 1..N : frame.h_inp.data[i] = frame.pos_feat.data[i] \o frame.ambient_feat.data[i]
        /\ frame.h.shape = <<N, 1 + self.geo_feat_dim>>
        /\ frame.sigma.shape = <<N>>
        /\ frame.geo_feat.shape = <<N, self.geo_feat_dim>>
        /\ \A i \in 1..N :
              /\ Len(frame.geo_feat.data[i]) = self.geo_feat_dim
              /\ frame.h.data[i] = <<frame.h.data[i][1]>> \o frame.geo_feat.data[i]
              /\ frame.sigma.data[i] = trunc_exp(frame.h.data[i][1])

C8_Witness ==
    /\ Returned("density")
    /\ N >= 2
    /\ self.geo_feat_dim >= 1
    /\ Cols(frame.h) = 1 + self.geo_feat_dim
    /\ \E i \in 1..N : frame.geo_feat.data[i][1] # frame.h.data[i][1]

\* C8, the case geo_feat_dim = 0: sigma_net has one output and geo_feat is empty
C8_WitnessNoGeoFeat ==
    /\ Returned("forward")
    /\ self.geo_feat_dim = 0
    /\ frame.geo_feat.shape = <<N, 0>>

====
